---- MODULE Spec2Model ----
(***************************************************************************)
(* Model of featuretracker.py: the Track objects, the track list of        *)
(* featureTrackerPlayer and the per-frame handler drawExtra ->             *)
(* trackFeatures -> getNewTracks.                                          *)
(*                                                                         *)
(* A point is a pair <<x, y>>; coordinates are whole pixels (float32       *)
(* values that are exact, so the arithmetic of Point is exact integer      *)
(* arithmetic).  Python's None is the empty tuple.  The images are not     *)
(* modelled: what cv2.calcOpticalFlowPyrLK and cv2.goodFeaturesToTrack     *)
(* return is an input of the step that calls them, and either call may     *)
(* raise.  The handler is cut at the calls that can raise; pc is the       *)
(* position of the handler between those calls.                            *)
(***************************************************************************)
EXTENDS Integers, Sequences, FiniteSets

VARIABLES
    tracks,              \* self.tracks: list of Track
    posFrames,           \* self.posFrames: index of the frame being drawn
    lastFrameDrawn,      \* self.lastFrameDrawn (-1: no frame drawn yet)
    lastDetectionFrame,  \* self.lastDetectionFrame (-1: never detected)
    detectionInterval,   \* self.detectionInterval (constructor argument)
    maxTrackLength,      \* self.maxTrackLength (attribute, np.inf by default)
    pc,                  \* position of drawExtra/trackFeatures
    pre,                 \* the track list as it was when trackFeatures was entered
    p1,                  \* local p1 of trackFeatures (forward estimates)
    st,                  \* local st of trackFeatures (status flags of the last LK call)
    p0r,                 \* local p0r of trackFeatures (backward estimates)
    goodTracks,          \* local goodTracks of trackFeatures
    corners,             \* local corners of getNewTracks
    detected,            \* TRUE iff getNewTracks was called in the frame in progress
    exc                  \* the exception the last call of drawExtra raised ("none": it returned)

vars == <<tracks, posFrames, lastFrameDrawn, lastDetectionFrame, detectionInterval,
          maxTrackLength, pc, pre, p1, st, p0r, goodTracks, corners, detected, exc>>

config == <<detectionInterval, maxTrackLength>>
locals == <<p1, st, p0r, goodTracks, corners, detected>>

(***************************************************************************)
(* Values                                                                  *)
(***************************************************************************)
None == <<>>

\* np.inf, the default of maxTrackLength: no length is greater than it
inf == -1

\* the literal 1 of "goodTracks = d < 1"
consistencyThreshold == 1

\* self.minFeatureTime
minFeatureTime == 3

Last(s) == s[Len(s)]

Abs(n) == IF n < 0 THEN -n ELSE n

Max(a, b) == IF a >= b THEN a ELSE b

\* Point.__sub__
PointSub(p, q) == <<p[1] - q[1], p[2] - q[2]>>

(***************************************************************************)
(* Track                                                                   *)
(***************************************************************************)
\* Track.__init__ (color, smoothingWindow and smoothedVel are never read by the tracker)
Track(tid) ==
    [trackId |-> tid, points |-> <<>>, velocity |-> <<>>, lastVel |-> None, lastPos |-> None]

numPoints(t) == Len(t.points)

\* addPoint with the subtraction the wrong way round
addPoint_Reversed(t, p) ==
    IF Len(t.points) > 0
    THEN [t EXCEPT !.lastPos = p,
                   !.lastVel = PointSub(Last(t.points), p),
                   !.velocity = Append(@, PointSub(Last(t.points), p)),
                   !.points = Append(@, p)]
    ELSE [t EXCEPT !.lastPos = p,
                   !.points = Append(@, p)]

\* addPoint that sets lastVel only at the first extension
addPoint_StaleVel(t, p) ==
    IF Len(t.points) > 0
    THEN [t EXCEPT !.lastPos = p,
                   !.lastVel = IF @ = None THEN PointSub(p, Last(t.points)) ELSE @,
                   !.velocity = Append(@, PointSub(p, Last(t.points))),
                   !.points = Append(@, p)]
    ELSE [t EXCEPT !.lastPos = p,
                   !.points = Append(@, p)]

\* Track.addPoint
addPoint(t, p) ==
    IF Len(t.points) > 0
    THEN [t EXCEPT !.lastPos = p,
                   !.lastVel = PointSub(p, Last(t.points)),
                   !.velocity = Append(@, PointSub(p, Last(t.points))),
                   !.points = Append(@, p)]
    ELSE [t EXCEPT !.lastPos = p,
                   !.points = Append(@, p)]

\* removeOldest that pops the newest point (points.pop())
removeOldest_Newest(t) == [t EXCEPT !.points = SubSeq(@, 1, Len(@) - 1)]

\* Track.removeOldest
removeOldest(t) == [t EXCEPT !.points = Tail(@)]

\* the length test off by one
TooLong_OffByOne(t, maxLen) == IF maxLen = inf THEN FALSE ELSE numPoints(t) > maxLen + 1

\* numPoints() > self.maxTrackLength
TooLong(t, maxLen) == IF maxLen = inf THEN FALSE ELSE numPoints(t) > maxLen

\* the trim done twice
extendTrack_TrimTwice(t, p, maxLen) ==
    LET a == addPoint(t, p)
        b == IF TooLong(a, maxLen) THEN removeOldest(a) ELSE a
    IN  IF TooLong(b, maxLen) THEN removeOldest(b) ELSE b

\* the body of the loop of trackFeatures for one good track
extendTrack(t, p, maxLen) ==
    LET t1 == addPoint(t, p)
    IN  IF TooLong(t1, maxLen) THEN removeOldest(t1) ELSE t1

(***************************************************************************)
(* trackFeatures                                                           *)
(***************************************************************************)
\* a reset that drops only the first track
resetTracks_DropFirst(trs) == IF trs = <<>> THEN <<>> ELSE Tail(trs)

\* resetTracks: self.tracks = []
resetTracks(trs) == <<>>

\* the reset condition without its forward-skip clause
Discontinuity_NoSkip(last, cur) == last = -1 \/ last > cur

\* the condition of the reset at the top of trackFeatures
Discontinuity(last, cur) == last = -1 \/ last > cur \/ (cur - last) > 1

\* d = abs(p0-p0r).reshape(-1, 2).max(-1), for one track
Discrepancy(a, b) == Max(Abs(a[1] - b[1]), Abs(a[2] - b[2]))

\* goodTracks = d < 1, for one track
GoodTrack(t, back, flag) == Discrepancy(Last(t.points), back) < consistencyThreshold

\* the loop without its "continue": a track that is not good is kept as it is
RECURSIVE newTracksFrom_NoContinue(_, _, _, _, _)
newTracksFrom_NoContinue(trs, fwd, good, maxLen, i) ==
    IF i > Len(trs) THEN <<>>
    ELSE LET rest == newTracksFrom_NoContinue(trs, fwd, good, maxLen, i + 1)
         IN  IF good[i]
             THEN <<extendTrack(trs[i], fwd[i], maxLen)>> \o rest
             ELSE <<trs[i]>> \o rest

\* the loop "for tr, (x, y), goodFlag in zip(...)": newTracks, built front to back
RECURSIVE newTracksFrom(_, _, _, _, _)
newTracksFrom(trs, fwd, good, maxLen, i) ==
    IF i > Len(trs) THEN <<>>
    ELSE LET rest == newTracksFrom(trs, fwd, good, maxLen, i + 1)
         IN  IF good[i]
             THEN <<extendTrack(trs[i], fwd[i], maxLen)>> \o rest
             ELSE rest

\* the detection condition with > for >=
ShouldDetect_Late(cur, lastDet, interval) == lastDet = -1 \/ (cur - lastDet) > interval

\* the detection condition without its first-frame clause
ShouldDetect_NoFirst(cur, lastDet, interval) == (cur - lastDet) >= interval

\* the condition of the detection at the bottom of trackFeatures
ShouldDetect(cur, lastDet, interval) == lastDet = -1 \/ (cur - lastDet) >= interval

\* the loop of getNewTracks with insert(0, t) for append(t)
RECURSIVE spawnAll_Front(_, _)
spawnAll_Front(trs, cs) ==
    IF cs = <<>> THEN trs
    ELSE spawnAll_Front(<<addPoint(Track(Len(trs)), Head(cs))>> \o trs, Tail(cs))

\* the loop of getNewTracks: one new track per corner, its id the length of the list
RECURSIVE spawnAll(_, _)
spawnAll(trs, cs) ==
    IF cs = <<>> THEN trs
    ELSE spawnAll(Append(trs, addPoint(Track(Len(trs)), Head(cs))), Tail(cs))

(***************************************************************************)
(* Steps of the handler                                                    *)
(***************************************************************************)
Init ==
    /\ tracks = <<>>
    /\ posFrames = 0
    /\ lastFrameDrawn = -1
    /\ lastDetectionFrame = -1
    /\ pc = "idle"
    /\ pre = <<>>
    /\ p1 = <<>>
    /\ st = <<>>
    /\ p0r = <<>>
    /\ goodTracks = <<>>
    /\ corners = None
    /\ detected = FALSE
    /\ exc = "none"

\* control leaves drawExtra: the locals of the frame are gone
\* (Raise: by the exception e, nothing after the raising call runs)
Leave ==
    /\ pc' = "idle"
    /\ pre' = <<>>
    /\ p1' = <<>>
    /\ st' = <<>>
    /\ p0r' = <<>>
    /\ goodTracks' = <<>>
    /\ corners' = None
    /\ detected' = FALSE

Raise(e) ==
    /\ Leave
    /\ exc' = e
    /\ UNCHANGED <<tracks, posFrames, lastFrameDrawn, lastDetectionFrame, config>>

\* the player shows frame f: drawExtra, trackFeatures up to the first LK call
BeginFrame(f) ==
    /\ pc = "idle"
    /\ posFrames' = f
    /\ pre' = tracks
    /\ tracks' = IF Discontinuity(lastFrameDrawn, f) THEN resetTracks(tracks) ELSE tracks
    /\ pc' = IF Len(tracks') > 0 THEN "forward" ELSE "detect"
    /\ exc' = "none"
    /\ UNCHANGED <<lastFrameDrawn, lastDetectionFrame, config, locals>>

\* p1, st, err = cv2.calcOpticalFlowPyrLK(lastGrayImage, grayImg, p0, ...)
TrackForward(fwd, flags) ==
    /\ pc = "forward"
    /\ p1' = fwd
    /\ st' = flags
    /\ pc' = "backward"
    /\ UNCHANGED <<tracks, posFrames, lastFrameDrawn, lastDetectionFrame, config,
                   pre, p0r, goodTracks, corners, detected, exc>>

ForwardRaises ==
    /\ pc = "forward"
    /\ Raise("cv2.error")

\* p0r, st, err = cv2.calcOpticalFlowPyrLK(grayImg, lastGrayImage, p1, ...),
\* then the comparison and the loop that rebuilds self.tracks
TrackBackward(back, flags) ==
    /\ pc = "backward"
    /\ p0r' = back
    /\ st' = flags
    /\ goodTracks' = [i \in 1..Len(tracks) |-> GoodTrack(tracks[i], back[i], flags[i])]
    /\ tracks' = newTracksFrom(tracks, p1, goodTracks', maxTrackLength, 1)
    /\ pc' = "detect"
    /\ UNCHANGED <<posFrames, lastFrameDrawn, lastDetectionFrame, config,
                   pre, p1, corners, detected, exc>>

BackwardRaises ==
    /\ pc = "backward"
    /\ Raise("cv2.error")

\* the detection is not due in this frame
SkipDetection ==
    /\ pc = "detect"
    /\ ~ShouldDetect(posFrames, lastDetectionFrame, detectionInterval)
    /\ pc' = "draw"
    /\ UNCHANGED <<tracks, posFrames, lastFrameDrawn, lastDetectionFrame, config,
                   pre, locals, exc>>

\* getNewTracks; cs is what cv2.goodFeaturesToTrack returns (None: no corner)
getNewTracks(cs) ==
    /\ pc = "detect"
    /\ ShouldDetect(posFrames, lastDetectionFrame, detectionInterval)
    /\ corners' = cs
    /\ tracks' = IF cs # None THEN spawnAll(tracks, cs) ELSE tracks
    /\ lastDetectionFrame' = posFrames
    /\ detected' = TRUE
    /\ pc' = "draw"
    /\ UNCHANGED <<posFrames, lastFrameDrawn, config, pre, p1, st, p0r, goodTracks, exc>>

DetectionRaises ==
    /\ pc = "detect"
    /\ ShouldDetect(posFrames, lastDetectionFrame, detectionInterval)
    /\ Raise("cv2.error")

\* the rest of drawExtra: the tracks are drawn, the frame is recorded as drawn
FinishFrame ==
    /\ pc = "draw"
    /\ lastFrameDrawn' = posFrames
    /\ Leave
    /\ UNCHANGED <<tracks, posFrames, lastDetectionFrame, config, exc>>

\* drawTrack reads the undefined name i in its print statement (NameError);
\* it gets there only for a track of at least minFeatureTime points
DrawRaises ==
    /\ pc = "draw"
    /\ \E i \in 1..Len(tracks) : numPoints(tracks[i]) >= minFeatureTime
    /\ Raise("NameError")

(***************************************************************************)
(* Environments: the frames the player shows and what the cv2 calls return *)
(***************************************************************************)
SeqsUpTo(S, n) == UNION {[1..k -> S] : k \in 0..n}

Grid(mx, my) == (0..mx) \X (0..my)

\* the points of the grid on its anti-diagonal
AntiDiagonal(m) == {p \in Grid(m, m) : p[1] + p[2] = m}

\* the tracks stay within the bounds of the environment
Within(trs, maxTracks, maxVel) ==
    /\ Len(trs) <= maxTracks
    /\ \A i \in 1..Len(trs) : Len(trs[i].velocity) <= maxVel

InitIn(E) ==
    /\ Init
    /\ detectionInterval \in E.intervals
    /\ maxTrackLength \in E.lengths

NextIn(E) ==
    \/ \E f \in E.frames : BeginFrame(f)
    \/ \E fwd \in [1..Len(tracks) -> E.points], flags \in [1..Len(tracks) -> E.flags] :
          TrackForward(fwd, flags)
    \/ ForwardRaises
    \/ \E back \in [1..Len(tracks) -> E.back], flags \in [1..Len(tracks) -> E.backFlags] :
          /\ TrackBackward(back, flags)
          /\ Within(tracks', E.maxTracks, E.maxVel)
    \/ BackwardRaises
    \/ SkipDetection
    \/ \E cs \in SeqsUpTo(E.points, E.maxCorners) :
          /\ getNewTracks(cs)
          /\ Within(tracks', E.maxTracks, E.maxVel)
    \/ DetectionRaises
    \/ FinishFrame
    \/ DrawRaises

(***************************************************************************)
(* Spec: the tracker over a few frames                                     *)
(***************************************************************************)
MaxFrame == 3
MaxCoord == 1
MaxTracks == 2
MaxCorners == 2
MaxVelocity == 2
MaxInterval == 2
MaxLength == 2

Env ==
    [frames |-> 0..MaxFrame,
     points |-> AntiDiagonal(MaxCoord),
     back |-> Grid(MaxCoord, MaxCoord),
     flags |-> BOOLEAN,
     backFlags |-> {TRUE},
     maxTracks |-> MaxTracks,
     maxCorners |-> MaxCorners,
     maxVel |-> MaxVelocity,
     intervals |-> 1..MaxInterval,
     lengths |-> {inf} \cup (0..MaxLength)]

SpecInit == InitIn(Env)

Next == NextIn(Env)

Spec == SpecInit /\ [][Next]_vars

(***************************************************************************)
(* SpecSched: uninterrupted playback from frame 0, no call raises          *)
(***************************************************************************)
SchedMaxFrame == 11
SchedMaxInterval == 5
SchedMaxTracks == 1
SchedMaxVelocity == 1

SchedEnv ==
    [frames |-> 0..SchedMaxFrame,
     points |-> {<<0, 0>>},
     back |-> {<<0, 0>>, <<1, 0>>},
     flags |-> BOOLEAN,
     backFlags |-> {TRUE},
     maxTracks |-> SchedMaxTracks,
     maxCorners |-> SchedMaxTracks,
     maxVel |-> SchedMaxVelocity,
     intervals |-> 1..SchedMaxInterval,
     lengths |-> {inf}]

SchedInit == InitIn(SchedEnv)

SchedNext ==
    \/ /\ lastFrameDrawn + 1 \in SchedEnv.frames
       /\ BeginFrame(lastFrameDrawn + 1)
    \/ \E fwd \in [1..Len(tracks) -> SchedEnv.points],
          flags \in [1..Len(tracks) -> SchedEnv.flags] :
          TrackForward(fwd, flags)
    \/ \E back \in [1..Len(tracks) -> SchedEnv.back],
          flags \in [1..Len(tracks) -> SchedEnv.backFlags] :
          /\ TrackBackward(back, flags)
          /\ Within(tracks', SchedEnv.maxTracks, SchedEnv.maxVel)
    \/ SkipDetection
    \/ \E cs \in SeqsUpTo(SchedEnv.points, SchedEnv.maxCorners) :
          /\ getNewTracks(cs)
          /\ Within(tracks', SchedEnv.maxTracks, SchedEnv.maxVel)
    \/ FinishFrame

SpecSched == SchedInit /\ [][SchedNext]_vars

(***************************************************************************)
(* Vocabulary of the properties                                            *)
(***************************************************************************)
\* trackFeatures is past its extension step in the frame in progress
AfterExtension == pc \in {"detect", "draw"}

\* the frame in progress is the first one, a backward jump or a forward skip
FirstFrame == lastFrameDrawn = -1
BackwardJump == lastFrameDrawn # -1 /\ posFrames < lastFrameDrawn
ForwardSkip == lastFrameDrawn # -1 /\ posFrames - lastFrameDrawn > 1
Jumped == FirstFrame \/ BackwardJump \/ ForwardSkip

\* the tracks the filter kept, and the place of kept track i in the new list
Kept == {i \in 1..Len(goodTracks) : goodTracks[i]}
PlaceOf(i) == Cardinality({k \in Kept : k <= i})

\* the tracks of the list are the one-point tracks of the points cs, in order
OnePointTracksOf(cs) ==
    /\ Len(tracks) = Len(cs)
    /\ \A i \in 1..Len(tracks) :
          /\ tracks[i].points = <<cs[i]>>
          /\ tracks[i].velocity = <<>>

(***************************************************************************)
(* C1: the ids of the tracks in the list are pairwise distinct             *)
(* (as specified; the code breaks it)                                      *)
(***************************************************************************)
C1_IdsDistinct ==
    \A i, j \in 1..Len(tracks) : i # j => tracks[i].trackId # tracks[j].trackId

(***************************************************************************)
(* C2: in the extension step a track is kept iff the forward call reported *)
(* success for it and its round-trip discrepancy is strictly below the     *)
(* threshold (as specified; the code never reads the success flags)        *)
(***************************************************************************)
C2_KeptIffSuccessAndConsistent ==
    [][(pc = "backward" /\ pc' = "detect") =>
          \A i \in 1..Len(tracks) :
             goodTracks'[i] <=>
                (st[i] /\ Discrepancy(Last(tracks[i].points), p0r'[i]) < consistencyThreshold)]_vars

(***************************************************************************)
(* C3: when a call of the motion estimation or of the detection raises,    *)
(* the track list after the frame is the list before the frame (as         *)
(* specified; the code does not undo the reset or the extension)           *)
(***************************************************************************)
C3_FailedFrameKeepsRegistry ==
    [][(pc \in {"forward", "backward", "detect"} /\ pc' = "idle") => tracks' = pre]_vars

(***************************************************************************)
(* C4: once the extension step of a first frame, a backward jump or a      *)
(* forward skip is over, no track of before the frame is left: the list    *)
(* holds exactly the one-point tracks of the corners detected in the frame *)
(***************************************************************************)
C4_JumpDropsAllTracks ==
    (AfterExtension /\ Jumped) => OnePointTracksOf(corners)

\* a forward skip and a backward jump that dropped tracks and detected new ones
C4_Witness ==
    /\ pc = "draw"
    /\ ForwardSkip \/ BackwardJump
    /\ Len(pre) > 1
    /\ Len(corners) = 1

(***************************************************************************)
(* C5: every track has one velocity less than it has points, for any       *)
(* maximum track length (as specified; the trim of the code leaves         *)
(* velocity alone)                                                         *)
(***************************************************************************)
C5_VelocityLength ==
    \A i \in 1..Len(tracks) : Len(tracks[i].velocity) = Len(tracks[i].points) - 1

(***************************************************************************)
(* C6: in uninterrupted playback from frame 0 the detection runs in frame  *)
(* f iff f is a multiple of the detection interval, and lastDetectionFrame *)
(* is the frame index exactly in the frames where it runs                  *)
(***************************************************************************)
C6_Cadence ==
    /\ pc = "draw" =>
          /\ detected <=> posFrames % detectionInterval = 0
          /\ detected <=> lastDetectionFrame = posFrames
    /\ (pc = "idle" /\ lastFrameDrawn # -1) =>
          lastDetectionFrame = lastFrameDrawn - (lastFrameDrawn % detectionInterval)

\* the third detection of a playback with the interval 5: frame 10
C6_Witness ==
    /\ pc = "draw"
    /\ detectionInterval = 5
    /\ posFrames = 10
    /\ detected

(***************************************************************************)
(* C7: when the extension of a track makes it longer than the maximum      *)
(* track length, exactly the oldest point is removed: the points are the   *)
(* old points without the first one, in their order, and the new point     *)
(***************************************************************************)
C7_TrimRemovesOldest ==
    (AfterExtension /\ ~Jumped /\ maxTrackLength # inf) =>
       \A i \in Kept :
          LET old == pre[i].points
              new == tracks[PlaceOf(i)].points
          IN  Len(old) + 1 > maxTrackLength =>
                 /\ Len(new) = Len(old)
                 /\ \A k \in 1..(Len(old) - 1) : new[k] = old[k + 1]
                 /\ new[Len(new)] = p1[i]

\* a track of two points was extended beyond the maximum length 2
C7_Witness ==
    /\ pc = "detect"
    /\ ~Jumped
    /\ maxTrackLength = 2
    /\ \E i \in Kept :
          /\ Len(pre[i].points) = 2
          /\ pre[i].points[1] # pre[i].points[2]
          /\ p1[i] # pre[i].points[2]

(***************************************************************************)
(* C8: in a frame that is no jump and starts with a non-empty list, the    *)
(* tracks after the extension step are the kept tracks, in their order,    *)
(* each with its new point last (and one point more, unless trimmed);      *)
(* rejected tracks are gone; the detection only adds its new tracks        *)
(***************************************************************************)
C8_KeptExtendedRejectedRemoved ==
    (AfterExtension /\ ~Jumped /\ pre # <<>>) =>
       /\ Len(tracks) = Cardinality(Kept) + Len(corners)
       /\ \A i \in Kept :
             LET old == pre[i]
                 new == tracks[PlaceOf(i)]
             IN  /\ new.trackId = old.trackId
                 /\ new.points[Len(new.points)] = p1[i]
                 /\ (maxTrackLength = inf \/ Len(old.points) < maxTrackLength) =>
                       new.points = old.points \o <<p1[i]>>

\* a list of two tracks, the first rejected and the second kept; and
\* a list whose only track was rejected ends empty
C8_Witness ==
    /\ pc = "draw"
    /\ ~detected
    /\ ~Jumped
    /\ Len(pre) = 2
    /\ ~goodTracks[1]
    /\ goodTracks[2]
    /\ Len(pre[2].points) = 1
    /\ Len(tracks[1].points) = 2

(***************************************************************************)
(* C9: in the first frame the extension step does not run (no motion       *)
(* estimate is requested), the detection runs, and the list then holds     *)
(* exactly one one-point track per corner returned, none for no corner     *)
(***************************************************************************)
C9_FirstFrame ==
    FirstFrame =>
       /\ pc \notin {"forward", "backward"}
       /\ p1 = <<>> /\ p0r = <<>> /\ goodTracks = <<>>
       /\ pc = "detect" => lastDetectionFrame = -1 /\ tracks = <<>>
       /\ pc = "draw" => detected /\ OnePointTracksOf(corners)

\* the first frame with two corners
C9_Witness ==
    /\ pc = "draw"
    /\ FirstFrame
    /\ Len(corners) = 2
    /\ Len(tracks) = 2

(***************************************************************************)
(* C10: with no trimming (unbounded track length) every track has one      *)
(* velocity less than points, and velocity[i] = points[i+1] - points[i]    *)
(***************************************************************************)
C10_VelocityIsDifference ==
    maxTrackLength = inf =>
       \A i \in 1..Len(tracks) :
          LET t == tracks[i]
          IN  /\ Len(t.velocity) = Len(t.points) - 1
              /\ \A k \in 1..Len(t.velocity) :
                    /\ t.velocity[k][1] = t.points[k + 1][1] - t.points[k][1]
                    /\ t.velocity[k][2] = t.points[k + 1][2] - t.points[k][2]

\* a track that was spawned and extended twice, with two different velocities
C10_Witness ==
    /\ maxTrackLength = inf
    /\ \E i \in 1..Len(tracks) :
          /\ Len(tracks[i].points) = 3
          /\ tracks[i].velocity[1] # tracks[i].velocity[2]

(***************************************************************************)
(* C11: a reset is idempotent: from any track list, resetting twice gives  *)
(* what resetting once gives, the empty list (resetTracks touches nothing  *)
(* but the list)                                                           *)
(***************************************************************************)
C11_ResetIdempotent ==
    /\ resetTracks(resetTracks(tracks)) = resetTracks(tracks)
    /\ resetTracks(tracks) = <<>>
    /\ (pc = "detect" /\ Jumped) => tracks = <<>>

\* a jump has reset a list of two tracks
C11_Witness ==
    /\ pc = "detect"
    /\ BackwardJump \/ ForwardSkip
    /\ Len(pre) = 2
    /\ tracks = <<>>

(***************************************************************************)
(* C12: in a frame that is a backward jump or a forward skip, the          *)
(* detection runs in that frame, or it is due within the next              *)
(* detectionInterval - 1 frames when they are played one after the other   *)
(* (as specified; after a backward jump the code waits for                 *)
(* lastDetectionFrame + detectionInterval)                                 *)
(***************************************************************************)
C12_RedetectionAfterJump ==
    (pc = "draw" /\ (BackwardJump \/ ForwardSkip)) =>
       \/ detected
       \/ \E g \in 1..(detectionInterval - 1) :
             (posFrames + g) - lastDetectionFrame >= detectionInterval

(***************************************************************************)
(* C13: no track spawned by a detection gets the id of a track that was    *)
(* rejected earlier in the same epoch; here for the detection of the frame *)
(* whose extension step rejected the track (as specified; the code numbers *)
(* a new track with the length of the list)                                *)
(***************************************************************************)
C13_RejectedIdNotReused ==
    (pc = "draw" /\ ~Jumped /\ pre # <<>>) =>
       \A i \in 1..Len(pre) :
          ~goodTracks[i] =>
             \A j \in (Cardinality(Kept) + 1)..Len(tracks) :
                tracks[j].trackId # pre[i].trackId

(***************************************************************************)
(* C14: when a call of the motion estimation or of the detection raised in *)
(* frame k, frame k + 1 is no jump: the tracks are not reset, and they are *)
(* tracked into the frame (as specified; the code records a frame as drawn *)
(* only at the end of drawExtra, so frame k + 1 is a forward skip)         *)
(***************************************************************************)
C14_NextFrameAfterFailure ==
    [][(pc = "idle" /\ exc = "cv2.error" /\ pc' # "idle" /\ posFrames' = posFrames + 1) =>
          /\ tracks' = tracks
          /\ tracks # <<>> => pc' = "forward"]_vars

(***************************************************************************)
(* C15: every track in the list has at least one point, for any maximum    *)
(* track length (0 and 1 included); and the points of a track that         *)
(* survives a frame are its old points with the new point appended and at  *)
(* most the first point removed                                            *)
(***************************************************************************)
C15_PointsAppendOnly ==
    /\ \A i \in 1..Len(tracks) : Len(tracks[i].points) >= 1
    /\ (AfterExtension /\ ~Jumped) =>
          \A i \in Kept :
             LET old == pre[i].points
                 new == tracks[PlaceOf(i)].points
                 all == old \o <<p1[i]>>
             IN  \/ new = all
                 \/ new = SubSeq(all, 2, Len(all))

\* two tracks survived a frame under the maximum length 0
C15_Witness ==
    /\ pc = "draw"
    /\ ~Jumped
    /\ maxTrackLength = 0
    /\ Cardinality(Kept) = 2
    /\ Len(tracks) = 2

(***************************************************************************)
(* C16: with a maximum track length L >= 1, every track in the list has at *)
(* most L points                                                           *)
(***************************************************************************)
C16_LengthBound ==
    (maxTrackLength # inf /\ maxTrackLength >= 1) =>
       \A i \in 1..Len(tracks) : Len(tracks[i].points) <= maxTrackLength

\* a track at the maximum length 2 was extended and is still two points long
C16_Witness ==
    /\ pc = "draw"
    /\ ~Jumped
    /\ maxTrackLength = 2
    /\ \E i \in Kept :
          /\ Len(pre[i].points) = 2
          /\ Len(tracks[PlaceOf(i)].points) = 2
    /\ Len(corners) = 1

(***************************************************************************)
(* C17: the extension step comes before the detection, and the detection   *)
(* only adds: it leaves the tracks that survived the extension as they     *)
(* are, in their order, and appends one track per corner, with that one    *)
(* point and no velocity                                                   *)
(***************************************************************************)
C17_DetectionOnlyAdds ==
    [][(pc = "detect" /\ pc' = "draw") =>
          /\ Len(tracks') = Len(tracks) + Len(corners')
          /\ \A i \in 1..Len(tracks) : tracks'[i] = tracks[i]
          /\ \A k \in 1..Len(corners') :
                /\ tracks'[Len(tracks) + k].points = <<corners'[k]>>
                /\ tracks'[Len(tracks) + k].velocity = <<>>
          /\ ~detected /\ corners = None]_vars

\* a detection added a track behind a track that survived the extension
C17_Witness ==
    /\ pc = "draw"
    /\ detected
    /\ ~Jumped
    /\ Cardinality(Kept) = 1
    /\ Len(corners) = 1
    /\ Len(tracks) = 2
    /\ Len(tracks[1].points) = 2
    /\ Len(tracks[2].points) = 1

(***************************************************************************)
(* C18: for every track in the list, lastPos is the last point; lastVel is *)
(* None exactly when the track was never extended (it has no velocity),    *)
(* and otherwise it is the velocity appended last, which is the last point *)
(* minus the point before it                                               *)
(***************************************************************************)
C18_LastViews ==
    \A i \in 1..Len(tracks) :
       LET t == tracks[i]
           n == Len(t.points)
       IN  /\ t.lastPos = t.points[n]
           /\ t.lastVel = None <=> t.velocity = <<>>
           /\ t.velocity # <<>> => t.lastVel = t.velocity[Len(t.velocity)]
           /\ (t.velocity # <<>> /\ n >= 2) =>
                 /\ t.lastVel[1] = t.points[n][1] - t.points[n - 1][1]
                 /\ t.lastVel[2] = t.points[n][2] - t.points[n - 1][2]

\* a track extended twice, by two different velocities, and trimmed
C18_Witness ==
    /\ maxTrackLength = 2
    /\ \E i \in 1..Len(tracks) :
          /\ Len(tracks[i].velocity) = 2
          /\ Len(tracks[i].points) = 2
          /\ tracks[i].velocity[1] # tracks[i].velocity[2]

====
